---- MODULE Spec2Model ----
(***************************************************************************)
(* Model of lattice-symmetries' group closure (symmetry_spec_t, equal,     *)
(* compose, make_group, ls_create_group) and of the representative finder  *)
(* (batch_acc_64_arch_t, get_state_info_arch, is_representative_arch).     *)
(*                                                                         *)
(* Permutations are sequences of 0-based indices: the element at C++       *)
(* index i is permutation[i + 1] here.                                     *)
(***************************************************************************)
EXTENDS Integers, Sequences, FiniteSets, TLC

VARIABLES
    pc,          \* position of the caller: see the actions below
    generators,  \* the specs handed to make_group (to_spec of each ls_symmetry)
    group,       \* make_group's local vector `group`
    gi,          \* index of the next generator in the deduplication loop
    mg,          \* what make_group returned: an outcome, or NotReturned
    rc,          \* ls_create_group's return code, or NoCode
    ptr,         \* the caller's *ptr: NullPtr until ls_create_group writes it
    header,      \* basis_base_t
    body,        \* small_basis_t
    big,         \* big_basis_t built from the same compiled symmetries
    bits,        \* the argument of the current representative-finder calls
    info,        \* what get_state_info_arch (small) wrote
    isrep,       \* what is_representative_arch returned
    infobig,     \* what get_state_info_arch (big) wrote
    ax, ay,      \* operands of the symmetry spec algebra calls
    aeq, acomp   \* what equal(ax, ay) and compose(ax, ay) returned

vars == <<pc, generators, group, gi, mg, rc, ptr, header, body, big, bits,
          info, isrep, infobig, ax, ay, aeq, acomp>>

(***************************************************************************)
(* Bounds of the model.                                                    *)
(***************************************************************************)
MaxGenerators == 2      \* longest generator list handed to make_group
MaxBits == 15           \* largest bit pattern handed to the finder
MaxAlgPeriodicity == 4  \* largest periodicity field of an algebra operand

(***************************************************************************)
(* Widths of the integer types.                                            *)
(***************************************************************************)
Uint16Mod == 65536         \* uint16_t
batch_size == 8            \* lanes of Vec8uq / Vec8d

NotReturned == [tag |-> "none", value |-> "none"]
NoCode == "none"
\* the caller's *ptr before ls_create_group has written it
NullPtr == [null |-> TRUE, payload |-> <<>>]

LS_SUCCESS == "LS_SUCCESS"
LS_INCOMPATIBLE_SYMMETRIES == "LS_INCOMPATIBLE_SYMMETRIES"

\* outcome::result<T>
Ok(v) == [tag |-> "ok", value |-> v]
Failure(code) == [tag |-> "error", value |-> code]
IsOk(r) == r.tag = "ok"
IsError(r) == r.tag = "error"

symmetry_spec_t(p, s, per) == [permutation |-> p, sector |-> s, periodicity |-> per]

(***************************************************************************)
(* External collaborators of the closure engine.                           *)
(***************************************************************************)
\* i -> a[b[i]] on 0-based index sequences of equal length
ComposePerm(a, b) == [i \in 1..Len(b) |-> a[b[i] + 1]]

IdentityPerm(n) == [i \in 1..n |-> i - 1]

RECURSIVE Gcd(_, _)
Gcd(a, b) == IF b = 0 THEN a ELSE Gcd(b, a % b)

Lcm(a, b) == (a \div Gcd(a, b)) * b

\* the length of the cycle of p through `start`, `cur` being k steps along it
RECURSIVE CycleLength(_, _, _, _)
CycleLength(p, start, cur, k) ==
    IF p[cur + 1] = start THEN k + 1 ELSE CycleLength(p, start, p[cur + 1], k + 1)

\* the least common multiple of a set of positive numbers
RECURSIVE LcmOfSet(_)
LcmOfSet(S) ==
    IF S = {} THEN 1
    ELSE LET n == CHOOSE m \in S : TRUE
         IN  Lcm(n, LcmOfSet(S \ {n}))

\* the order of the permutation: the smallest k > 0 with p^k the identity,
\* which is the least common multiple of the lengths of its cycles
compute_periodicity(p) ==
    LcmOfSet({ CycleLength(p, i, i, 0) : i \in 0 .. (Len(p) - 1) })

(***************************************************************************)
(* 32-bit `unsigned` arithmetic.  The integers of TLC end at 2^31 - 1, so  *)
(* an `unsigned` value is held as three limbs of 15 bits, the lowest       *)
(* first: <<l0, l1, l2>> is l0 + 2^15 l1 + 2^30 l2, and 2^32 is 4 * 2^30.  *)
(***************************************************************************)
LimbBase == 2 ^ 15

\* the limbs of an integer below 2^31
ToUnsigned(n) == <<n % LimbBase, (n \div LimbBase) % LimbBase, n \div (LimbBase * LimbBase)>>

\* the integer of limbs that hold a value below 2^31
ToInt(x) == x[1] + LimbBase * x[2] + (LimbBase * LimbBase) * x[3]

\* the carries moved up
Carry(x) ==
    LET t2 == x[2] + (x[1] \div LimbBase)
    IN  <<x[1] % LimbBase, t2 % LimbBase, x[3] + (t2 \div LimbBase)>>

\* reduction modulo 2^32
Wrap32(x) == <<x[1], x[2], x[3] % 4>>

UAdd(x, y) == Carry(<<x[1] + y[1], x[2] + y[2], x[3] + y[3]>>)

\* x - y for x >= y
USub(x, y) ==
    LET b1 == IF x[1] < y[1] THEN 1 ELSE 0
        b2 == IF x[2] < y[2] + b1 THEN 1 ELSE 0
    IN  <<x[1] + b1 * LimbBase - y[1],
          x[2] + b2 * LimbBase - y[2] - b1,
          x[3] - y[3] - b2>>

ULess(x, y) ==
    \/ x[3] < y[3]
    \/ x[3] = y[3] /\ x[2] < y[2]
    \/ x[3] = y[3] /\ x[2] = y[2] /\ x[1] < y[1]

UZero == <<0, 0, 0>>

\* bit i of x
UBit(x, i) == (x[(i \div 15) + 1] \div (2 ^ (i % 15))) % 2

\* the product of two values below 2^16, before any reduction
UMul16(a, b) ==
    LET a0 == a % LimbBase
        a1 == a \div LimbBase
        b0 == b % LimbBase
        b1 == b \div LimbBase
    IN  Carry(<<a0 * b0, a0 * b1 + a1 * b0, a1 * b1>>)

\* x with bit i set, bit i of x being 0
USetBit(x, i) == [x EXCEPT ![(i \div 15) + 1] = @ + 2 ^ (i % 15)]

\* long division: r is what the bits of x above bit i have left, and bit i
\* and the bits below it are still to bring down
RECURSIVE UDivModFrom(_, _, _, _)
UDivModFrom(x, y, i, r) ==
    IF i < 0 THEN [quot |-> UZero, rem |-> r]
    ELSE LET r2 == UAdd(UAdd(r, r), <<UBit(x, i), 0, 0>>)
             fits == ~ULess(r2, y)
             rest == UDivModFrom(x, y, i - 1, IF fits THEN USub(r2, y) ELSE r2)
         IN  [quot |-> IF fits THEN USetBit(rest.quot, i) ELSE rest.quot,
              rem |-> rest.rem]

\* x / y and x % y of two `unsigned` values, y > 0
UDiv(x, y) == UDivModFrom(x, y, 31, UZero).quot
UMod(x, y) == UDivModFrom(x, y, 31, UZero).rem

\* std::gcd on `unsigned`
RECURSIVE UGcd(_, _)
UGcd(x, y) == IF y = UZero THEN x ELSE UGcd(y, UMod(x, y))

(***************************************************************************)
(* The symmetry spec algebra, twice.  rational_add and compose compute on  *)
(* the naturals: they are the code wherever no sum or product reaches      *)
(* 2^31, which holds for every periodicity below 2^15.  rational_add_      *)
(* unsigned and compose_unsigned compute the same lines on limbs, modulo   *)
(* 2^32, for periodicities up to 2^16 - 1.  The narrowing to uint16_t is   *)
(* kept in both.                                                           *)
(***************************************************************************)
\* rational_add in 32-bit arithmetic; the result as integers
rational_add_unsigned(a, b) ==
    LET p0 == Wrap32(UAdd(Wrap32(UMul16(a[1], b[2])), Wrap32(UMul16(b[1], a[2]))))
        q0 == Wrap32(UMul16(a[2], b[2]))
        m == UGcd(p0, q0)
        p == UDiv(p0, m)
        q == UDiv(q0, m)
    IN  <<ToInt(UMod(p, q)), ToInt(q)>>

rational_add_unreduced(a, b) ==
    LET p == a[1] * b[2] + b[1] * a[2]
        q == a[2] * b[2]
    IN  <<p % q, q>>

rational_add(a, b) ==
    LET p0 == a[1] * b[2] + b[1] * a[2]
        q0 == a[2] * b[2]
        m == Gcd(p0, q0)
        p == p0 \div m
        q == q0 \div m
    IN  <<p % q, q>>

equal_permutation_first(x, y) ==
    IF Len(x.permutation) # Len(y.permutation) THEN Failure(LS_INCOMPATIBLE_SYMMETRIES)
    ELSE IF x.permutation = y.permutation
         THEN IF x.sector # y.sector THEN Failure(LS_INCOMPATIBLE_SYMMETRIES)
              ELSE Ok(x.periodicity = y.periodicity)
         ELSE Ok(FALSE)

equal_ignoring_sector(x, y) ==
    IF Len(x.permutation) # Len(y.permutation) THEN Failure(LS_INCOMPATIBLE_SYMMETRIES)
    ELSE IF x.periodicity # y.periodicity THEN Ok(FALSE)
    ELSE Ok(x.permutation = y.permutation)

equal(x, y) ==
    IF Len(x.permutation) # Len(y.permutation) THEN Failure(LS_INCOMPATIBLE_SYMMETRIES)
    ELSE IF x.periodicity # y.periodicity THEN Ok(FALSE)
    ELSE IF x.permutation = y.permutation
         THEN IF x.sector # y.sector THEN Failure(LS_INCOMPATIBLE_SYMMETRIES)
              ELSE Ok(TRUE)
         ELSE Ok(FALSE)

compose(x, y) ==
    IF Len(x.permutation) # Len(y.permutation) THEN Failure(LS_INCOMPATIBLE_SYMMETRIES)
    ELSE LET temp == [i \in 1..Len(y.permutation) |-> y.permutation[i]]
             permutation == [i \in 1..Len(temp) |-> x.permutation[temp[i] + 1]]
             periodicity == compute_periodicity(permutation)
             phase == rational_add(<<x.sector, x.periodicity>>, <<y.sector, y.periodicity>>)
         IN  IF phase[2] > periodicity THEN Failure(LS_INCOMPATIBLE_SYMMETRIES)
             ELSE IF periodicity % phase[2] # 0 THEN Failure(LS_INCOMPATIBLE_SYMMETRIES)
             ELSE LET sector == phase[1] * (periodicity \div phase[2])
                  IN  Ok(symmetry_spec_t(permutation, sector % Uint16Mod,
                                         periodicity % Uint16Mod))

\* compose with rational_add in 32-bit arithmetic
compose_unsigned(x, y) ==
    IF Len(x.permutation) # Len(y.permutation) THEN Failure(LS_INCOMPATIBLE_SYMMETRIES)
    ELSE LET temp == [i \in 1..Len(y.permutation) |-> y.permutation[i]]
             permutation == [i \in 1..Len(temp) |-> x.permutation[temp[i] + 1]]
             periodicity == compute_periodicity(permutation)
             phase == rational_add_unsigned(<<x.sector, x.periodicity>>,
                                            <<y.sector, y.periodicity>>)
         IN  IF phase[2] > periodicity THEN Failure(LS_INCOMPATIBLE_SYMMETRIES)
             ELSE IF periodicity % phase[2] # 0 THEN Failure(LS_INCOMPATIBLE_SYMMETRIES)
             ELSE LET sector == phase[1] * (periodicity \div phase[2])
                  IN  Ok(symmetry_spec_t(permutation, sector % Uint16Mod,
                                         periodicity % Uint16Mod))

make_identity_spec(number_spins) == symmetry_spec_t(IdentityPerm(number_spins), 0, 1)

(***************************************************************************)
(* make_group.                                                             *)
(***************************************************************************)
RECURSIVE contains_from(_, _, _)
contains_from(gs, x, k) ==
    IF k > Len(gs) THEN Ok(FALSE)
    ELSE LET r == equal(gs[k], x)
         IN  IF IsError(r) THEN r
             ELSE IF r.value THEN Ok(TRUE)
             ELSE contains_from(gs, x, k + 1)

\* the lambda `contains` of make_group
contains(gs, x) == contains_from(gs, x, 1)

dedup_one_dropping_errors(grp, g) ==
    LET c == contains(grp, g)
    IN  IF IsError(c) THEN Ok(grp)
        ELSE IF ~c.value THEN Ok(Append(grp, g))
        ELSE Ok(grp)

\* a generator loop that appends every generator, the ones the group already
\* holds included
dedup_one_always_appending(grp, g) ==
    LET c == contains(grp, g)
    IN  IF IsError(c) THEN c ELSE Ok(Append(grp, g))

\* one iteration of the generator loop: the group after it, or the error
dedup_one(grp, g) ==
    LET c == contains(grp, g)
    IN  IF IsError(c) THEN c
        ELSE IF ~c.value THEN Ok(Append(grp, g))
        ELSE Ok(grp)

\* a round whose composition is appended whenever `extra` does not hold it
\* yet, the working set not being looked at
closure_pair_ignoring_group(grp, extra, g1, g2) ==
    LET g == compose(g1, g2)
    IN  IF IsError(g) THEN g
        ELSE LET c2 == contains(extra, g.value)
             IN  IF IsError(c2) THEN c2
                 ELSE IF c2.value THEN Ok(extra)
                 ELSE Ok(Append(extra, g.value))

\* the body of the g2 loop for one pair: `extra` after it, or the error
closure_pair(grp, extra, g1, g2) ==
    LET g == compose(g1, g2)
    IN  IF IsError(g) THEN g
        ELSE LET c1 == contains(grp, g.value)
             IN  IF IsError(c1) THEN c1
                 ELSE IF c1.value THEN Ok(extra)
                 ELSE LET c2 == contains(extra, g.value)
                      IN  IF IsError(c2) THEN c2
                          ELSE IF c2.value THEN Ok(extra)
                          ELSE Ok(Append(extra, g.value))

RECURSIVE closure_inner(_, _, _, _)
closure_inner(grp, extra, i, j) ==
    IF j > Len(grp) THEN Ok(extra)
    ELSE LET r == closure_pair(grp, extra, grp[i], grp[j])
         IN  IF IsError(r) THEN r ELSE closure_inner(grp, r.value, i, j + 1)

RECURSIVE closure_outer(_, _, _)
closure_outer(grp, extra, i) ==
    IF i > Len(grp) THEN Ok(extra)
    ELSE LET r == closure_inner(grp, extra, i, 1)
         IN  IF IsError(r) THEN r ELSE closure_outer(grp, r.value, i + 1)

\* a round that only composes with the first element of the group
closure_round_first_only(grp) ==
    IF grp = <<>> THEN Ok(<<>>) ELSE closure_inner(grp, <<>>, 1, 1)

\* one round of the for (;;) loop up to `extra.empty()`: `extra`, or the error
closure_round(grp) == closure_outer(grp, <<>>, 1)

RECURSIVE dedup_all(_, _, _)
dedup_all(gens, grp, k) ==
    IF k > Len(gens) THEN Ok(grp)
    ELSE LET r == dedup_one(grp, gens[k])
         IN  IF IsError(r) THEN r ELSE dedup_all(gens, r.value, k + 1)

RECURSIVE closure_loop(_)
closure_loop(grp) ==
    LET e == closure_round(grp)
    IN  IF IsError(e) THEN e
        ELSE IF e.value = <<>> THEN Ok(grp)
        ELSE closure_loop(grp \o e.value)

\* make_group(span<symmetry_spec_t const>) as a function of its argument
make_group(gens) ==
    IF gens = <<>> THEN Ok(<<>>)
    ELSE LET d == dedup_all(gens, <<>>, 1)
         IN  IF IsError(d) THEN d ELSE closure_loop(d.value)

(***************************************************************************)
(* Compiled symmetries.  Real numbers are stored doubled, so that          *)
(* cos(2 pi / 3) = -1/2 is the integer -1: 1.0 is 2.  The doubled          *)
(* imaginary part is stored in units of 1 where the real part is even and  *)
(* of sqrt(3) where it is odd.                                             *)
(***************************************************************************)
\* exp(2 pi i sector / periodicity), for the roots of unity of order 1, 2, 3, 4, 6
compute_eigenvalue(sector, periodicity) ==
    LET k == (12 * sector) \div periodicity   \* the angle in twelfths of a turn
    IN  CASE k = 0 -> [re |-> 2, im |-> 0]
          [] k = 2 -> [re |-> 1, im |-> 1]
          [] k = 3 -> [re |-> 0, im |-> 2]
          [] k = 4 -> [re |-> -1, im |-> 1]
          [] k = 6 -> [re |-> -2, im |-> 0]
          [] k = 8 -> [re |-> -1, im |-> -1]
          [] k = 9 -> [re |-> 0, im |-> -2]
          [] k = 10 -> [re |-> 1, im |-> -1]

from_spec(spec) ==
    [network |-> spec.permutation, sector |-> spec.sector,
     periodicity |-> spec.periodicity,
     eigenvalue |-> compute_eigenvalue(spec.sector, spec.periodicity)]

Bit(x, i) == (x \div (2 ^ i)) % 2

RECURSIVE PermuteBits(_, _, _)
PermuteBits(p, x, i) ==
    IF i >= Len(p) THEN 0
    ELSE Bit(x, p[i + 1]) * (2 ^ i) + PermuteBits(p, x, i + 1)

\* the compiled network of permutation p applied to the bit pattern x: bit i
\* of the result is bit p[i] of x, and the bits from Len(p) upwards stay
ApplyNetwork(p, x) ==
    PermuteBits(p, x, 0) + (x \div (2 ^ Len(p))) * (2 ^ Len(p))

RECURSIVE Xor(_, _)
Xor(a, b) ==
    IF a = 0 THEN b
    ELSE IF b = 0 THEN a
    ELSE (((a % 2) + (b % 2)) % 2) + 2 * Xor(a \div 2, b \div 2)

Abs(v) == IF v < 0 THEN -v ELSE v

(***************************************************************************)
(* vectorclass: a vector is a function on its lanes 0 .. n-1.              *)
(***************************************************************************)
Lanes == 0 .. (batch_size - 1)
Broadcast(v) == [l \in Lanes |-> v]
select(mask, a, b) == [l \in DOMAIN mask |-> IF mask[l] THEN a[l] ELSE b[l]]
if_add(mask, a, b) == [l \in DOMAIN mask |-> IF mask[l] THEN a[l] + b[l] ELSE a[l]]
horizontal_or(mask) == \E l \in DOMAIN mask : mask[l]
get_low(v) == [l \in 0 .. (Cardinality(DOMAIN v) \div 2 - 1) |-> v[l]]
get_high(v) ==
    [l \in 0 .. (Cardinality(DOMAIN v) \div 2 - 1) |-> v[l + Cardinality(DOMAIN v) \div 2]]

RECURSIVE SumLanes(_, _)
SumLanes(v, l) == IF l >= Cardinality(DOMAIN v) THEN 0 ELSE v[l] + SumLanes(v, l + 1)
horizontal_add(v) == SumLanes(v, 0)

Scale(v, c) == [l \in DOMAIN v |-> v[l] * c]

(***************************************************************************)
(* state_info.cpp                                                          *)
(***************************************************************************)
\* (~uint64_t{0}) >> (64 - n) is the number with the lowest n bits set
get_flip_mask_64(n) == IF n = 0 THEN 0 ELSE 2 ^ n - 1

\* the words of the mask, read as one number
get_flip_mask_512(n) == 2 ^ n - 1

\* the constructor batch_acc_64_arch_t(bits)
batch_acc_64_arch_t(b) ==
    [original |-> Broadcast(b), r |-> Broadcast(b), n |-> Broadcast(0),
     e_re |-> Broadcast(2), e_im |-> Broadcast(0)]

update_adding_smaller(acc, x, real, imag) ==
    LET smaller == [l \in Lanes |-> x[l] < acc.r[l]]
    IN  [original |-> acc.original,
         r |-> select(smaller, x, acc.r),
         e_re |-> select(smaller, real, acc.e_re),
         e_im |-> select(smaller, imag, acc.e_im),
         n |-> if_add(smaller, acc.n, real)]

update(acc, x, real, imag) ==
    LET smaller == [l \in Lanes |-> x[l] < acc.r[l]]
    IN  [original |-> acc.original,
         r |-> select(smaller, x, acc.r),
         e_re |-> select(smaller, real, acc.e_re),
         e_im |-> select(smaller, imag, acc.e_im),
         n |-> if_add([l \in Lanes |-> x[l] = acc.original[l]], acc.n, real)]

update_first_few_unmasked(acc, x, real, imag, count) == update(acc, x, real, imag)

update_first_few(acc, x, real, imag, count) ==
    LET include == [l \in Lanes |-> l < count]
        smaller == [l \in Lanes |-> (x[l] < acc.r[l]) /\ include[l]]
    IN  [original |-> acc.original,
         r |-> select(smaller, x, acc.r),
         e_re |-> select(smaller, real, acc.e_re),
         e_im |-> select(smaller, imag, acc.e_im),
         n |-> if_add([l \in Lanes |-> (x[l] = acc.original[l]) /\ include[l]],
                      acc.n, real)]

\* <<the bool returned, the accumulator afterwards>>
update_norm_only(acc, x, real) ==
    LET smaller == [l \in Lanes |-> x[l] < acc.r[l]]
    IN  IF horizontal_or(smaller) THEN <<FALSE, acc>>
        ELSE <<TRUE, [acc EXCEPT !.n =
                        if_add([l \in Lanes |-> x[l] = acc.original[l]], acc.n, real)]>>

update_first_few_norm_only_unmasked(acc, x, real, count) ==
    update_norm_only(acc, x, real)

update_first_few_norm_only(acc, x, real, count) ==
    LET include == [l \in Lanes |-> l < count]
        smaller == [l \in Lanes |-> (x[l] < acc.r[l]) /\ include[l]]
    IN  IF horizontal_or(smaller) THEN <<FALSE, acc>>
        ELSE <<TRUE, [acc EXCEPT !.n =
                        if_add([l \in Lanes |-> (x[l] = acc.original[l]) /\ include[l]],
                               acc.n, real)]>>

reduce_norm_only(acc) == horizontal_add(acc.n)

\* the three out-parameters of reduce
reduce(acc) ==
    LET r256_low == get_low(acc.r)
        r256_high == get_high(acc.r)
        smaller256 == [l \in 0..3 |-> r256_low[l] < r256_high[l]]
        r256 == select(smaller256, r256_low, r256_high)
        e_re256 == select(smaller256, get_low(acc.e_re), get_high(acc.e_re))
        e_im256 == select(smaller256, get_low(acc.e_im), get_high(acc.e_im))
        r128_low == get_low(r256)
        r128_high == get_high(r256)
        smaller128 == [l \in 0..1 |-> r128_low[l] < r128_high[l]]
        r128 == select(smaller128, r128_low, r128_high)
        e_re128 == select(smaller128, get_low(e_re256), get_high(e_re256))
        e_im128 == select(smaller128, get_low(e_im256), get_high(e_im256))
        r64_low == r128[0]
        r64_high == r128[1]
        smaller64 == r64_low < r64_high
    IN  IF smaller64
        THEN [repr |-> r64_low, character |-> [re |-> e_re128[0], im |-> e_im128[0]],
              norm |-> reduce_norm_only(acc)]
        ELSE [repr |-> r64_high, character |-> [re |-> e_re128[1], im |-> e_im128[1]],
              norm |-> reduce_norm_only(acc)]

\* benes_forward_arch: every lane's network applied to that lane of x
benes_forward_arch(x, symmetry) ==
    [l \in Lanes |-> ApplyNetwork(symmetry.network[l], x[l])]

\* if (std::abs(n) <= norm_threshold) { n = 0.0; }, n doubled
norm_threshold_inverse == 100000
SnapToZero(n) == IF Abs(n) * norm_threshold_inverse <= 2 THEN 0 ELSE n

full_batch_not_scaled(acc, symmetry, hdr) ==
    LET flip_mask == get_flip_mask_64(hdr.number_spins)
        flip_coeff == hdr.spin_inversion
        x == benes_forward_arch(acc.original, symmetry)
        real == symmetry.eigenvalues_real
        imag == symmetry.eigenvalues_imag
        acc1 == update(acc, x, real, imag)
    IN  IF hdr.spin_inversion # 0
        THEN update(acc1, [l \in Lanes |-> Xor(x[l], flip_mask)],
                    real, imag)
        ELSE acc1

\* one pass of the loop over basis_body.batched_symmetries
full_batch(acc, symmetry, hdr) ==
    LET flip_mask == get_flip_mask_64(hdr.number_spins)
        flip_coeff == hdr.spin_inversion
        x == benes_forward_arch(acc.original, symmetry)
        real == symmetry.eigenvalues_real
        imag == symmetry.eigenvalues_imag
        acc1 == update(acc, x, real, imag)
    IN  IF hdr.spin_inversion # 0
        THEN update(acc1, [l \in Lanes |-> Xor(x[l], flip_mask)],
                    IF hdr.spin_inversion # 1 THEN Scale(real, flip_coeff) ELSE real,
                    IF hdr.spin_inversion # 1 THEN Scale(imag, flip_coeff) ELSE imag)
        ELSE acc1

\* the block for other_symmetries with every lane taken as valid
remainder_batch_all_lanes(acc, symmetry, count, hdr) ==
    LET flip_mask == get_flip_mask_64(hdr.number_spins)
        flip_coeff == hdr.spin_inversion
        x == benes_forward_arch(acc.original, symmetry)
        real == symmetry.eigenvalues_real
        imag == symmetry.eigenvalues_imag
        acc1 == update_first_few(acc, x, real, imag, batch_size)
    IN  IF hdr.spin_inversion # 0
        THEN update_first_few(acc1, [l \in Lanes |-> Xor(x[l], flip_mask)],
                              IF hdr.spin_inversion # 1 THEN Scale(real, flip_coeff) ELSE real,
                              IF hdr.spin_inversion # 1 THEN Scale(imag, flip_coeff) ELSE imag,
                              batch_size)
        ELSE acc1

\* the block for basis_body.other_symmetries
remainder_batch(acc, symmetry, count, hdr) ==
    LET flip_mask == get_flip_mask_64(hdr.number_spins)
        flip_coeff == hdr.spin_inversion
        x == benes_forward_arch(acc.original, symmetry)
        real == symmetry.eigenvalues_real
        imag == symmetry.eigenvalues_imag
        acc1 == update_first_few(acc, x, real, imag, count)
    IN  IF hdr.spin_inversion # 0
        THEN update_first_few(acc1, [l \in Lanes |-> Xor(x[l], flip_mask)],
                              IF hdr.spin_inversion # 1 THEN Scale(real, flip_coeff) ELSE real,
                              IF hdr.spin_inversion # 1 THEN Scale(imag, flip_coeff) ELSE imag,
                              count)
        ELSE acc1

RECURSIVE scan_batches(_, _, _, _)
scan_batches(acc, batches, k, hdr) ==
    IF k > Len(batches) THEN acc
    ELSE scan_batches(full_batch(acc, batches[k], hdr), batches, k + 1, hdr)

\* std::optional
Nullopt == [has_value |-> FALSE]
Some(v) == [has_value |-> TRUE, value |-> v]
HasValue(opt) == opt.has_value

group_size_without_remainder(hdr, bdy) ==
    ((IF hdr.spin_inversion # 0 THEN 1 ELSE 0) + 1)
        * (batch_size * Len(bdy.batched_symmetries))

\* group_size of get_state_info_arch (small_basis_t)
group_size_small(hdr, bdy) ==
    ((IF hdr.spin_inversion # 0 THEN 1 ELSE 0) + 1)
        * (batch_size * Len(bdy.batched_symmetries) + bdy.number_other_symmetries)

\* get_state_info_arch (small_basis_t): the three out-parameters; `norm` is the
\* number under the square root as numerator and denominator (the numerator
\* doubled), `raw` the sum before the snap to zero, and `asserted` whether
\* LATTICE_SYMMETRIES_ASSERT(n >= 0.0) held.
get_state_info_small(hdr, bdy, b) ==
    IF ~hdr.has_symmetries
    THEN [representative |-> b, character |-> [re |-> 2, im |-> 0],
          norm |-> [num |-> 2, den |-> 1], raw |-> 2, asserted |-> TRUE]
    ELSE LET acc0 == batch_acc_64_arch_t(b)
             acc1 == scan_batches(acc0, bdy.batched_symmetries, 1, hdr)
             acc2 == IF HasValue(bdy.other_symmetries)
                     THEN remainder_batch(acc1, bdy.other_symmetries.value,
                                          bdy.number_other_symmetries, hdr)
                     ELSE acc1
             out == reduce(acc2)
             n == SnapToZero(out.norm)
         IN  [representative |-> out.repr, character |-> out.character,
              norm |-> [num |-> n, den |-> group_size_small(hdr, bdy)],
              raw |-> out.norm, asserted |-> n >= 0]

\* one pass of is_representative_arch's loop: <<go on?, the accumulator>>
full_batch_norm_only(acc, symmetry, hdr) ==
    LET flip_mask == get_flip_mask_64(hdr.number_spins)
        flip_coeff == hdr.spin_inversion
        x == benes_forward_arch(acc.original, symmetry)
        real == symmetry.eigenvalues_real
        u1 == update_norm_only(acc, x, real)
    IN  IF ~u1[1] THEN u1
        ELSE IF hdr.spin_inversion # 0
        THEN update_norm_only(u1[2], [l \in Lanes |-> Xor(x[l], flip_mask)],
                              Scale(real, flip_coeff))
        ELSE u1

remainder_batch_norm_only(acc, symmetry, count, hdr) ==
    LET flip_mask == get_flip_mask_64(hdr.number_spins)
        flip_coeff == hdr.spin_inversion
        x == benes_forward_arch(acc.original, symmetry)
        real == symmetry.eigenvalues_real
        u1 == update_first_few_norm_only(acc, x, real, count)
    IN  IF ~u1[1] THEN u1
        ELSE IF hdr.spin_inversion # 0
        THEN update_first_few_norm_only(u1[2], [l \in Lanes |-> Xor(x[l], flip_mask)],
                                        Scale(real, flip_coeff), count)
        ELSE u1

RECURSIVE scan_batches_norm_only(_, _, _, _)
scan_batches_norm_only(acc, batches, k, hdr) ==
    IF k > Len(batches) THEN <<TRUE, acc>>
    ELSE LET u == full_batch_norm_only(acc, batches[k], hdr)
         IN  IF ~u[1] THEN u ELSE scan_batches_norm_only(u[2], batches, k + 1, hdr)

\* is_representative_arch: `value` is the bool returned; `early` tells a return
\* from inside the scan; `raw` and `asserted` as in get_state_info_small
is_representative_arch(hdr, bdy, b) ==
    IF ~hdr.has_symmetries
    THEN [value |-> TRUE, early |-> TRUE, raw |-> 0, asserted |-> TRUE]
    ELSE LET acc0 == batch_acc_64_arch_t(b)
             u1 == scan_batches_norm_only(acc0, bdy.batched_symmetries, 1, hdr)
             u2 == IF ~u1[1] THEN u1
                   ELSE IF HasValue(bdy.other_symmetries)
                   THEN remainder_batch_norm_only(u1[2], bdy.other_symmetries.value,
                                                  bdy.number_other_symmetries, hdr)
                   ELSE u1
             raw == reduce_norm_only(u2[2])
             n == SnapToZero(raw)
         IN  IF ~u2[1]
             THEN [value |-> FALSE, early |-> TRUE, raw |-> raw, asserted |-> TRUE]
             ELSE [value |-> n > 0, early |-> FALSE, raw |-> raw, asserted |-> n >= 0]

\* the scalar loop body with the eigenvalue of the flipped branch not
\* multiplied by the spin-inversion sign
big_step_flip_unscaled(st, symmetry, hdr, b) ==
    LET flip_mask == get_flip_mask_512(hdr.number_spins)
        flip_coeff == hdr.spin_inversion
        buffer == ApplyNetwork(symmetry.network, b)
        st1 == IF buffer < st.r
               THEN [r |-> buffer, n |-> st.n, e |-> symmetry.eigenvalue]
               ELSE IF buffer = b
               THEN [st EXCEPT !.n = st.n + symmetry.eigenvalue.re]
               ELSE st
        flipped == Xor(buffer, flip_mask)
    IN  IF hdr.spin_inversion # 0
        THEN IF flipped < st1.r
             THEN [r |-> flipped, n |-> st1.n, e |-> symmetry.eigenvalue]
             ELSE IF flipped = b
             THEN [st1 EXCEPT !.n = st1.n + flip_coeff * symmetry.eigenvalue.re]
             ELSE st1
        ELSE st1

\* the body of the loop over basis_body.symmetries; st is <<r, n, e>>
big_step(st, symmetry, hdr, b) ==
    LET flip_mask == get_flip_mask_512(hdr.number_spins)
        flip_coeff == hdr.spin_inversion
        buffer == ApplyNetwork(symmetry.network, b)
        st1 == IF buffer < st.r
               THEN [r |-> buffer, n |-> st.n, e |-> symmetry.eigenvalue]
               ELSE IF buffer = b
               THEN [st EXCEPT !.n = st.n + symmetry.eigenvalue.re]
               ELSE st
        flipped == Xor(buffer, flip_mask)
    IN  IF hdr.spin_inversion # 0
        THEN IF flipped < st1.r
             THEN [r |-> flipped, n |-> st1.n,
                   e |-> [re |-> flip_coeff * symmetry.eigenvalue.re,
                          im |-> flip_coeff * symmetry.eigenvalue.im]]
             ELSE IF flipped = b
             THEN [st1 EXCEPT !.n = st1.n + flip_coeff * symmetry.eigenvalue.re]
             ELSE st1
        ELSE st1

RECURSIVE scan_symmetries(_, _, _, _, _)
scan_symmetries(st, symmetries, k, hdr, b) ==
    IF k > Len(symmetries) THEN st
    ELSE scan_symmetries(big_step(st, symmetries[k], hdr, b), symmetries, k + 1, hdr, b)

\* get_state_info_arch (big_basis_t), the bit pattern read as one number
get_state_info_big(hdr, bdy, b) ==
    IF ~hdr.has_symmetries
    THEN [representative |-> b, character |-> [re |-> 2, im |-> 0],
          norm |-> [num |-> 2, den |-> 1], raw |-> 2, asserted |-> TRUE]
    ELSE LET st == scan_symmetries([r |-> b, n |-> 0, e |-> [re |-> 2, im |-> 0]],
                                   bdy.symmetries, 1, hdr, b)
             n == SnapToZero(st.n)
             group_size == ((IF hdr.spin_inversion # 0 THEN 1 ELSE 0) + 1)
                               * Len(bdy.symmetries)
         IN  [representative |-> st.r, character |-> st.e,
              norm |-> [num |-> n, den |-> group_size],
              raw |-> st.n, asserted |-> n >= 0]

(***************************************************************************)
(* The basis built on a group: the compiled symmetries in batches of       *)
(* batch_size lanes, the rest in other_symmetries, whose unused lanes hold *)
(* the compiled symmetry `pad`.                                            *)
(***************************************************************************)
MakeBatch(symmetries, first, count, pad) ==
    LET lane(l) == IF l < count THEN symmetries[first + l] ELSE pad
    IN  [network |-> [l \in Lanes |-> lane(l).network],
         eigenvalues_real |-> [l \in Lanes |-> lane(l).eigenvalue.re],
         eigenvalues_imag |-> [l \in Lanes |-> lane(l).eigenvalue.im]]

small_basis_t(symmetries, pad) ==
    LET full == Len(symmetries) \div batch_size
        rest == Len(symmetries) % batch_size
    IN  [batched_symmetries |->
             [k \in 1..full |-> MakeBatch(symmetries, (k - 1) * batch_size + 1,
                                          batch_size, pad)],
         other_symmetries |->
             IF rest = 0 THEN Nullopt
             ELSE Some(MakeBatch(symmetries, full * batch_size + 1, rest, pad)),
         number_other_symmetries |-> rest]

big_basis_t(symmetries) == [symmetries |-> symmetries]

basis_base_t(number_spins, has_symmetries, spin_inversion) ==
    [number_spins |-> number_spins, has_symmetries |-> has_symmetries,
     spin_inversion |-> spin_inversion]

(***************************************************************************)
(* The inputs.                                                             *)
(***************************************************************************)
\* the permutations the generators are drawn from: on four sites the
\* translation, the reflection and a rotation of three sites, and the identity;
\* on three sites the translation
GeneratorPermutations ==
    { <<1, 2, 3, 0>>, <<3, 2, 1, 0>>, <<1, 2, 0, 3>>, <<0, 1, 2, 3>>, <<1, 2, 0>> }

\* every valid spec on them: the periodicity is the order of the permutation
\* and the sector lies in [0, periodicity)
GeneratorSpecs ==
    UNION { { symmetry_spec_t(p, s, compute_periodicity(p)) :
                s \in 0 .. (compute_periodicity(p) - 1) } : p \in GeneratorPermutations }

GeneratorLists == UNION { [1..n -> GeneratorSpecs] : n \in 0..MaxGenerators }

\* what the unused lanes of other_symmetries may hold
PadSymmetries(number_spins) ==
    { from_spec(make_identity_spec(number_spins)),
      from_spec(symmetry_spec_t([i \in 1..number_spins |->
                                    IF i = 2 THEN 2 ELSE IF i = 3 THEN 1 ELSE i - 1],
                                1, 2)) }

NoBasis == "none"

Init ==
    /\ pc = "dedup"
    /\ generators \in GeneratorLists
    /\ group = <<>>
    /\ gi = 1
    /\ mg = NotReturned
    /\ rc = NoCode
    /\ ptr = NullPtr
    /\ header = NoBasis
    /\ body = NoBasis
    /\ big = NoBasis
    /\ bits = 0
    /\ info = NotReturned
    /\ isrep = NotReturned
    /\ infobig = NotReturned
    /\ ax = NoBasis
    /\ ay = NoBasis
    /\ aeq = NotReturned
    /\ acomp = NotReturned

FinderVars == <<header, body, big, bits, info, isrep, infobig>>
AlgebraVars == <<ax, ay, aeq, acomp>>

(***************************************************************************)
(* make_group, one loop iteration per step.                                *)
(***************************************************************************)
\* if (generators.empty()) { return {}; }
MakeGroupEmpty ==
    /\ pc = "dedup"
    /\ generators = <<>>
    /\ mg' = Ok(<<>>)
    /\ pc' = "returned"
    /\ UNCHANGED <<generators, group, gi, rc, ptr, FinderVars, AlgebraVars>>

\* one iteration of `for (auto const& g : generators)`
DedupStep ==
    /\ pc = "dedup"
    /\ gi <= Len(generators)
    /\ LET r == dedup_one(group, generators[gi])
       IN  IF IsError(r)
           THEN /\ mg' = r
                /\ pc' = "returned"
                /\ UNCHANGED <<group, gi>>
           ELSE /\ group' = r.value
                /\ gi' = gi + 1
                /\ pc' = IF gi + 1 > Len(generators) THEN "closure" ELSE "dedup"
                /\ mg' = mg
    /\ UNCHANGED <<generators, rc, ptr, FinderVars, AlgebraVars>>

\* one iteration of `for (;;)`
ClosureRound ==
    /\ pc = "closure"
    /\ LET extra == closure_round(group)
       IN  IF IsError(extra)
           THEN /\ mg' = extra
                /\ pc' = "returned"
                /\ group' = group
           ELSE IF extra.value = <<>>
           THEN /\ mg' = Ok(group)
                /\ pc' = "returned"
                /\ group' = group
           ELSE /\ group' = group \o extra.value
                /\ UNCHANGED <<mg, pc>>
    /\ UNCHANGED <<generators, gi, rc, ptr, FinderVars, AlgebraVars>>

(***************************************************************************)
(* ls_create_group after make_group has returned.                          *)
(***************************************************************************)
CreateGroupError ==
    /\ pc = "returned"
    /\ IsError(mg)
    /\ rc' = mg.value
    /\ pc' = "failed"
    /\ UNCHANGED <<generators, group, gi, mg, ptr, FinderVars, AlgebraVars>>

CreateGroupSuccess ==
    /\ pc = "returned"
    /\ IsOk(mg)
    /\ ptr' = [null |-> FALSE, payload |-> [k \in 1..Len(mg.value) |-> from_spec(mg.value[k])]]
    /\ rc' = LS_SUCCESS
    /\ pc' = "created"
    /\ UNCHANGED <<generators, group, gi, mg, FinderVars, AlgebraVars>>

(***************************************************************************)
(* The basis on the group and the calls of the representative finder.      *)
(***************************************************************************)
MakeBasis ==
    /\ pc = "created"
    /\ ptr.payload # <<>>
    /\ LET number_spins == Len(ptr.payload[1].network)
       IN  \E spin_inversion \in {-1, 0, 1}, has_symmetries \in BOOLEAN,
              pad \in PadSymmetries(number_spins) :
               \* a basis without symmetries has no spin inversion either
               /\ has_symmetries \/ spin_inversion = 0
               /\ header' = basis_base_t(number_spins, has_symmetries, spin_inversion)
               /\ body' = small_basis_t(ptr.payload, pad)
               /\ big' = big_basis_t(ptr.payload)
    /\ pc' = "basis"
    \* ls_create_group has returned: its locals are gone and the basis keeps
    \* the group handle alone
    /\ generators' = <<>>
    /\ group' = <<>>
    /\ gi' = 1
    /\ mg' = NotReturned
    /\ UNCHANGED <<rc, ptr, bits, info, isrep, infobig, AlgebraVars>>

GetStateInfo ==
    /\ pc = "basis"
    /\ \E b \in 0..MaxBits :
           /\ bits' = b
           /\ info' = get_state_info_small(header, body, b)
    /\ isrep' = NotReturned
    /\ infobig' = NotReturned
    /\ pc' = "info"
    /\ UNCHANGED <<generators, group, gi, mg, rc, ptr, header, body, big, AlgebraVars>>

IsRepresentative ==
    /\ pc = "info"
    /\ isrep' = is_representative_arch(header, body, bits)
    /\ pc' = "isrep"
    /\ UNCHANGED <<generators, group, gi, mg, rc, ptr, header, body, big, bits, info,
                   infobig, AlgebraVars>>

GetStateInfoBig ==
    /\ pc = "isrep"
    /\ infobig' = get_state_info_big(header, big, bits)
    /\ pc' = "called"
    /\ UNCHANGED <<generators, group, gi, mg, rc, ptr, header, body, big, bits, info,
                   isrep, AlgebraVars>>

Next ==
    \/ MakeGroupEmpty
    \/ DedupStep
    \/ ClosureRound
    \/ CreateGroupError
    \/ CreateGroupSuccess
    \/ MakeBasis
    \/ GetStateInfo
    \/ IsRepresentative
    \/ GetStateInfoBig

Spec == Init /\ [][Next]_vars

(***************************************************************************)
(* The spec algebra on its own: equal and compose applied to a pair of     *)
(* symmetry_spec_t values, the periodicity field free.                     *)
(***************************************************************************)
AlgebraPermutations ==
    { <<0, 1>>, <<1, 0>>, <<0, 1, 2>>, <<1, 0, 2>>, <<0, 2, 1>>, <<2, 1, 0>>,
      <<1, 2, 0>>, <<2, 0, 1>>, <<1, 2, 3, 0>>, <<2, 3, 0, 1>>, <<3, 0, 1, 2>> }

AlgebraSpecs ==
    { symmetry_spec_t(p, s, per) :
        p \in AlgebraPermutations, s \in 0 .. (MaxAlgPeriodicity - 1),
        per \in 1..MaxAlgPeriodicity }

InitAlgebra ==
    /\ pc = "algebra"
    /\ ax \in { x \in AlgebraSpecs : x.sector < x.periodicity }
    /\ ay \in { y \in AlgebraSpecs : y.sector < y.periodicity }
    /\ aeq = NotReturned
    /\ acomp = NotReturned
    /\ generators = <<>>
    /\ group = <<>>
    /\ gi = 1
    /\ mg = NotReturned
    /\ rc = NoCode
    /\ ptr = NullPtr
    /\ header = NoBasis
    /\ body = NoBasis
    /\ big = NoBasis
    /\ bits = 0
    /\ info = NotReturned
    /\ isrep = NotReturned
    /\ infobig = NotReturned

CallEqual ==
    /\ pc = "algebra"
    /\ aeq.tag = "none"
    /\ aeq' = equal(ax, ay)
    /\ UNCHANGED <<pc, generators, group, gi, mg, rc, ptr, FinderVars, ax, ay, acomp>>

CallCompose ==
    /\ pc = "algebra"
    /\ acomp.tag = "none"
    /\ acomp' = compose(ax, ay)
    /\ UNCHANGED <<pc, generators, group, gi, mg, rc, ptr, FinderVars, ax, ay, aeq>>

NextAlgebra == CallEqual \/ CallCompose

SpecAlgebra == InitAlgebra /\ [][NextAlgebra]_vars

(***************************************************************************)
(* Properties of the closure engine.                                       *)
(***************************************************************************)
SameSpec(a, b) ==
    /\ a.permutation = b.permutation
    /\ a.periodicity = b.periodicity
    /\ a.sector = b.sector

SpecSet(seq) == { seq[k] : k \in 1..Len(seq) }

MakeGroupSucceeded == pc = "returned" /\ IsOk(mg)
MakeGroupFailed == pc = "returned" /\ IsError(mg)

\* C1: whenever make_group returns a group, the composition of every ordered
\* pair of its elements succeeds and has the permutation, the periodicity and
\* the sector of some element of the group.
C1_Closure ==
    MakeGroupSucceeded =>
        \A i, j \in 1..Len(mg.value) :
            LET c == compose(mg.value[i], mg.value[j])
            IN  /\ IsOk(c)
                /\ \E k \in 1..Len(mg.value) : SameSpec(mg.value[k], c.value)

\* a group of at least batch_size elements, two of which do not commute, is returned
C1_Witness ==
    /\ MakeGroupSucceeded
    /\ Len(mg.value) >= batch_size
    /\ \E i, j \in 1..Len(mg.value) :
           compose(mg.value[i], mg.value[j]) # compose(mg.value[j], mg.value[i])

\* two specs that claim the same symmetry with different sectors, or that act
\* on different numbers of sites
Incompatible(a, b) ==
    \/ Len(a.permutation) # Len(b.permutation)
    \/ /\ a.permutation = b.permutation
       /\ a.periodicity = b.periodicity
       /\ a.sector # b.sector

GeneratorsIncompatible ==
    \E i, j \in 1..Len(generators) : Incompatible(generators[i], generators[j])

\* a valid group: every composition succeeds and lands in it, and no two
\* elements are incompatible
FullyValid(seq) ==
    /\ \A i, j \in 1..Len(seq) : ~Incompatible(seq[i], seq[j])
    /\ \A i, j \in 1..Len(seq) :
           LET c == compose(seq[i], seq[j])
           IN  IsOk(c) /\ \E k \in 1..Len(seq) : SameSpec(seq[k], c.value)

\* C6: make_group is all-or-nothing.  Incompatible generators make it fail;
\* a failure is the error IncompatibleSymmetries and ls_create_group then
\* returns that code and leaves *ptr alone; a group that is returned, and the
\* handle written to *ptr, is a complete valid group holding every generator.
C6_AllOrNothing ==
    /\ (pc \in {"returned", "failed", "created"} /\ GeneratorsIncompatible)
           => (IsError(mg) /\ ptr = NullPtr)
    /\ MakeGroupFailed => (mg.value = LS_INCOMPATIBLE_SYMMETRIES /\ ptr = NullPtr)
    /\ pc = "failed" => (rc = LS_INCOMPATIBLE_SYMMETRIES /\ ptr = NullPtr)
    /\ (pc \in {"returned", "created"} /\ IsOk(mg))
           => /\ FullyValid(mg.value)
              /\ \A i \in 1..Len(generators) : generators[i] \in SpecSet(mg.value)
    /\ pc = "created"
           => /\ rc = LS_SUCCESS
              /\ ~ptr.null
              /\ ptr.payload = [k \in 1..Len(mg.value) |-> from_spec(mg.value[k])]

\* ls_create_group has failed on two generators with the same permutation and
\* periodicity but different sectors
C6_Witness ==
    /\ pc = "failed"
    /\ rc = LS_INCOMPATIBLE_SYMMETRIES
    /\ ptr = NullPtr
    /\ \E i, j \in 1..Len(generators) :
           /\ generators[i].permutation = generators[j].permutation
           /\ generators[i].sector # generators[j].sector

\* the orderings of a list
Reorderings(seq) ==
    { [k \in 1..Len(seq) |-> seq[f[k]]] :
        f \in { h \in [1..Len(seq) -> 1..Len(seq)] :
                  \A a, b \in 1..Len(seq) : h[a] = h[b] => a = b } }

\* the least set that holds S and every composition of two of its elements
RECURSIVE GeneratedBy(_)
GeneratedBy(S) ==
    LET T == S \cup { compose(pr[1], pr[2]).value :
                        pr \in { qr \in S \X S : IsOk(compose(qr[1], qr[2])) } }
    IN  IF T = S THEN S ELSE GeneratedBy(T)

\* C9: make_group returns the same outcome and, as a set, the same group for
\* every ordering of the generator list, and a group it returns is the least
\* set that holds the generators and is closed under compose.
C9_OrderIndependent ==
    pc = "returned" =>
        /\ \A other \in Reorderings(generators) :
               LET r == make_group(other)
               IN  /\ r.tag = mg.tag
                   /\ IsError(mg) => r.value = mg.value
                   /\ IsOk(mg) => SpecSet(r.value) = SpecSet(mg.value)
        /\ IsOk(mg) => SpecSet(mg.value) = GeneratedBy(SpecSet(generators))

\* a group was returned for two generators that do not commute
C9_Witness ==
    /\ MakeGroupSucceeded
    /\ Len(generators) >= 2
    /\ compose(generators[1], generators[2]) # compose(generators[2], generators[1])
    /\ Len(mg.value) > Len(generators)

(***************************************************************************)
(* Properties of the spec algebra.                                         *)
(***************************************************************************)
\* the denominator of n / d in lowest terms
LowestDenominator(n, d) == CHOOSE q \in 1..d : (n * q) % d = 0 /\
                               \A q2 \in 1..(q - 1) : (n * q2) % d # 0

\* C7: compose(x, y) fails when the lengths differ; otherwise, with P the
\* order of i -> x[y[i]] and p / q the sum of the two phases in lowest terms,
\* p reduced modulo q, it fails when q > P or q does not divide P and else
\* returns that permutation with periodicity P and sector p * (P / q) < P.
C7_Compose ==
    acomp.tag # "none" =>
        IF Len(ax.permutation) # Len(ay.permutation)
        THEN acomp = Failure(LS_INCOMPATIBLE_SYMMETRIES)
        ELSE LET perm == [i \in 1..Len(ax.permutation) |->
                              ax.permutation[ay.permutation[i] + 1]]
                 P == compute_periodicity(perm)
                 n == ax.sector * ay.periodicity + ay.sector * ax.periodicity
                 d == ax.periodicity * ay.periodicity
                 q == LowestDenominator(n, d)
                 p == ((n * q) \div d) % q
             IN  IF q > P \/ P % q # 0
                 THEN acomp = Failure(LS_INCOMPATIBLE_SYMMETRIES)
                 ELSE /\ IsOk(acomp)
                      /\ acomp.value.permutation = perm
                      /\ acomp.value.periodicity = P
                      /\ acomp.value.sector = p * (P \div q)
                      /\ acomp.value.sector >= 0
                      /\ acomp.value.sector < P

\* the composition of two valid specs whose phase p / q, q below the order of
\* the composed permutation, is not zero
C7_Witness ==
    /\ IsOk(acomp)
    /\ ax.permutation # ay.permutation
    /\ acomp.value.sector > 0
    /\ ax.periodicity = compute_periodicity(ax.permutation)
    /\ ay.periodicity = compute_periodicity(ay.permutation)
    /\ LowestDenominator(ax.sector * ay.periodicity + ay.sector * ax.periodicity,
                         ax.periodicity * ay.periodicity) < acomp.value.periodicity

\* C8: equal(x, y) is the error when the lengths differ, false when the
\* periodicities or the permutations differ, the error when both match and the
\* sectors differ, and true otherwise; equal(x, x) is true and equal(y, x) has
\* the outcome of equal(x, y).
C8_Equal ==
    aeq.tag # "none" =>
        /\ aeq = (IF Len(ax.permutation) # Len(ay.permutation)
                  THEN Failure(LS_INCOMPATIBLE_SYMMETRIES)
                  ELSE IF ax.periodicity # ay.periodicity \/ ax.permutation # ay.permutation
                  THEN Ok(FALSE)
                  ELSE IF ax.sector # ay.sector
                  THEN Failure(LS_INCOMPATIBLE_SYMMETRIES)
                  ELSE Ok(TRUE))
        /\ ax = ay => aeq = Ok(TRUE)
        /\ equal(ay, ax) = aeq

\* equal has answered false for one permutation with two periodicities
C8_Witness ==
    /\ aeq.tag = "ok"
    /\ ~aeq.value
    /\ ax.permutation = ay.permutation
    /\ ax.periodicity # ay.periodicity
    /\ ax.sector # ay.sector

(***************************************************************************)
(* Properties of the representative finder, stated on the compiled group   *)
(* itself: the sequence ptr.payload.                                       *)
(***************************************************************************)
InfoReturned == pc \in {"info", "isrep", "called"}
IsRepReturned == pc \in {"isrep", "called"}
BigReturned == pc = "called"

\* x with its lowest n bits inverted
FlipLow(x, n) == (x \div (2 ^ n)) * (2 ^ n) + ((2 ^ n) - 1 - (x % (2 ^ n)))

Image(k) == ApplyNetwork(ptr.payload[k].network, bits)
FlippedImage(k) == FlipLow(Image(k), header.number_spins)
FlippedEigenvalue(k) ==
    [re |-> header.spin_inversion * ptr.payload[k].eigenvalue.re,
     im |-> header.spin_inversion * ptr.payload[k].eigenvalue.im]

\* the extended orbit of `bits`, every element with its eigenvalue
Plain == { [value |-> Image(k), eigenvalue |-> ptr.payload[k].eigenvalue] :
             k \in 1..Len(ptr.payload) }
Flipped == { [value |-> FlippedImage(k), eigenvalue |-> FlippedEigenvalue(k)] :
               k \in 1..Len(ptr.payload) }
ExtendedOrbit == IF header.spin_inversion # 0 THEN Plain \cup Flipped ELSE Plain

OrbitMinimum ==
    CHOOSE m \in { e.value : e \in ExtendedOrbit } :
        \A e \in ExtendedOrbit : m <= e.value

\* the eigenvalues met at the minimum of the extended orbit
MinimumEigenvalues == { e.eigenvalue : e \in { f \in ExtendedOrbit : f.value = OrbitMinimum } }

RECURSIVE StabilizerSumFrom(_)
StabilizerSumFrom(k) ==
    IF k > Len(ptr.payload) THEN 0
    ELSE (IF Image(k) = bits THEN ptr.payload[k].eigenvalue.re ELSE 0)
         + (IF header.spin_inversion # 0 /\ FlippedImage(k) = bits
            THEN FlippedEigenvalue(k).re ELSE 0)
         + StabilizerSumFrom(k + 1)

\* the sum S of the real parts over the elements of the extended orbit that
\* equal `bits`, doubled
StabilizerSum == StabilizerSumFrom(1)

EffectiveGroupSize ==
    Len(ptr.payload) * (IF header.spin_inversion # 0 THEN 2 ELSE 1)

\* C2: with symmetries, get_state_info returns the smallest value of the
\* extended orbit, the unused lanes of the remainder batch left out, and as
\* character the eigenvalue of an element of the extended orbit whose value
\* is that representative.
C2_Representative ==
    (InfoReturned /\ header.has_symmetries) =>
        /\ info.representative = OrbitMinimum
        /\ \E e \in ExtendedOrbit :
               e.value = info.representative /\ e.eigenvalue = info.character

\* the minimum is below the input and is met on the flipped side alone, in a
\* group that fills a full batch and part of the remainder batch
C2_Witness ==
    /\ InfoReturned
    /\ header.has_symmetries
    /\ header.spin_inversion = -1
    /\ Len(body.batched_symmetries) >= 1
    /\ body.number_other_symmetries > 0
    /\ info.representative < bits
    /\ \A e \in Plain : e.value # info.representative
    /\ info.character.re < 0

\* C3: with symmetries, the number under the square root is S / |G_eff| on the
\* batched path and on the scalar path.
C3_Norm ==
    /\ (InfoReturned /\ header.has_symmetries) =>
           /\ info.norm.num = StabilizerSum
           /\ info.norm.den = EffectiveGroupSize
    /\ (BigReturned /\ header.has_symmetries) =>
           /\ infobig.norm.num = StabilizerSum
           /\ infobig.norm.den = EffectiveGroupSize

\* both paths have summed plain and flipped elements of a group with a full
\* and a remainder batch
C3_Witness ==
    /\ BigReturned
    /\ header.has_symmetries
    /\ header.spin_inversion # 0
    /\ Len(body.batched_symmetries) >= 1
    /\ body.number_other_symmetries > 0
    /\ \E k \in 1..Len(ptr.payload) : FlippedImage(k) = bits
    /\ info.norm.num > 2
    /\ infobig.norm.num > 2

\* norm > 0 for the number num / den under the square root
NormPositive(norm) == norm.num > 0 /\ norm.den > 0

\* C4: is_representative(b) is true exactly when get_state_info(b) returns b
\* as representative and a norm above 0.
C4_IsRepresentative ==
    IsRepReturned =>
        (isrep.value <=> (info.representative = bits /\ NormPositive(info.norm)))

\* is_representative has returned from inside the scan where the full scan
\* of get_state_info found a smaller element, for a group of more than one batch
C4_Witness ==
    /\ IsRepReturned
    /\ header.has_symmetries
    /\ isrep.early
    /\ ~isrep.value
    /\ Len(body.batched_symmetries) >= 1
    /\ body.number_other_symmetries > 0
    /\ info.representative < bits

\* C5 as claimed: the batch path and the scalar path return the same
\* representative, character and norm.
C5_PathsAgree ==
    BigReturned =>
        /\ infobig.representative = info.representative
        /\ infobig.character = info.character
        /\ infobig.norm = info.norm

\* C5 as amended: the two paths return the same representative and norm, and
\* the same character whenever the representative is the input itself or all
\* elements of the extended orbit at the minimum carry one eigenvalue.
C5_PathsAgreeUpToTies ==
    BigReturned =>
        /\ infobig.representative = info.representative
        /\ infobig.norm = info.norm
        /\ infobig.raw = info.raw
        /\ (\/ ~header.has_symmetries
            \/ info.representative = bits
            \/ Cardinality(MinimumEigenvalues) = 1)
               => infobig.character = info.character

\* both paths have returned the character of a flipped element below
\* the input, for a group of more than one batch
C5_Witness ==
    /\ BigReturned
    /\ header.has_symmetries
    /\ header.spin_inversion = -1
    /\ Len(body.batched_symmetries) >= 1
    /\ body.number_other_symmetries > 0
    /\ info.representative < bits
    /\ Cardinality(MinimumEigenvalues) = 1
    /\ info.character.re < 0
    /\ info.character = infobig.character
    /\ \A e \in Plain : e.value # info.representative

\* C10: the stabilizer sum is never negative after the snap to zero: the
\* assertion n >= 0.0 holds in get_state_info and is_representative, batched
\* and scalar.
C10_NormNonNegative ==
    /\ InfoReturned => (info.asserted /\ info.norm.num >= 0)
    /\ IsRepReturned => (isrep.asserted /\ (~isrep.early => SnapToZero(isrep.raw) >= 0))
    /\ BigReturned => (infobig.asserted /\ infobig.norm.num >= 0)

\* eigenvalues of both signs have met in a sum that is zero, with spin
\* inversion of sign -1
C10_Witness ==
    /\ BigReturned
    /\ header.has_symmetries
    /\ header.spin_inversion = -1
    /\ ~isrep.early
    /\ info.raw = 0
    /\ infobig.raw = 0
    /\ \E k \in 1..Len(ptr.payload) : Image(k) = bits /\ ptr.payload[k].eigenvalue.re < 0
    /\ \E k \in 1..Len(ptr.payload) : FlippedImage(k) = bits

(***************************************************************************)
(* make_group on its own, run to its return.  A call that has started      *)
(* keeps executing, so its steps are weakly fair.  ClosureRound is enabled *)
(* exactly when pc = "closure" (its body is a total IF), and a step of it  *)
(* changes pc or group: its fairness is WF_vars(ClosureRound) with the     *)
(* enabling condition written out.                                         *)
(***************************************************************************)
NextMakeGroup ==
    \/ MakeGroupEmpty
    \/ DedupStep
    \/ ClosureRound

SpecMakeGroup ==
    /\ Init
    /\ [][NextMakeGroup]_vars
    /\ WF_vars(MakeGroupEmpty)
    /\ WF_vars(DedupStep)
    /\ ([]<>(pc # "closure") \/ []<><<ClosureRound>>_vars)

SamePermutationAndPeriodicity(a, b) ==
    a.permutation = b.permutation /\ a.periodicity = b.periodicity

\* no two elements of the sequence have the same permutation and periodicity
PairwiseDistinct(seq) ==
    \A i, j \in 1..Len(seq) : i < j => ~SamePermutationAndPeriodicity(seq[i], seq[j])

RECURSIVE Factorial(_)
Factorial(n) == IF n = 0 THEN 1 ELSE n * Factorial(n - 1)

\* a round that does not end the loop keeps the working set and appends at
\* least one spec to it
RoundAppends ==
    (pc = "closure" /\ pc' = "closure") =>
        /\ Len(group') > Len(group)
        /\ SubSeq(group', 1, Len(group)) = group

\* the working set holds no permutation twice, so it is never longer than the
\* number of permutations of its sites
WorkingSetBounded ==
    group # <<>> =>
        /\ PairwiseDistinct(group)
        /\ Len(group) <= Factorial(Len(group[1].permutation))

\* C11: make_group terminates.  Every round of the closure loop either ends
\* the loop or appends at least one spec that the working set did not hold,
\* the working set never holds more specs than there are permutations, and
\* make_group eventually returns a group or an error.
C11_Terminates ==
    /\ [][RoundAppends /\ WorkingSetBounded']_vars
    /\ <>(pc = "returned" /\ (IsOk(mg) \/ IsError(mg)))

\* make_group has returned a group that took more than one growing round: two
\* generators give at most four new specs in the first round
C11_Witness ==
    /\ MakeGroupSucceeded
    /\ Len(generators) = 2
    /\ Len(mg.value) > 6

\* C12: a group that make_group returns for a non-empty generator list holds
\* the identity spec (identity permutation, sector 0, periodicity 1) and no
\* two elements with the same permutation and the same periodicity; for the
\* empty generator list the empty sequence is returned.
C12_IdentityAndDistinct ==
    MakeGroupSucceeded =>
        /\ generators # <<>> =>
               /\ \E k \in 1..Len(mg.value) :
                      mg.value[k] = make_identity_spec(Len(generators[1].permutation))
               /\ PairwiseDistinct(mg.value)
        /\ generators = <<>> => mg.value = <<>>

\* the same generator was given twice, no generator is the identity, and the
\* closure has added the identity to the group it returned
C12_Witness ==
    /\ MakeGroupSucceeded
    /\ Len(generators) = 2
    /\ generators[1] = generators[2]
    /\ generators[1].permutation # IdentityPerm(Len(generators[1].permutation))
    /\ Len(mg.value) >= 3
    /\ \E k \in 2..Len(mg.value) :
           mg.value[k] = make_identity_spec(Len(generators[1].permutation))

(***************************************************************************)
(* The unused lanes of the remainder batch.                                *)
(***************************************************************************)
\* what the unused lanes are overwritten with: a reflection or a translation
\* of the sites as the network, -1 or i as the eigenvalue
OtherLaneContents(number_spins) ==
    { [network |-> [i \in 1..number_spins |-> number_spins - i], re |-> -2, im |-> 0],
      [network |-> [i \in 1..number_spins |-> i % number_spins], re |-> 0, im |-> 2] }

\* the body with lanes number_other_symmetries .. 7 of other_symmetries
\* overwritten: the network alone, the eigenvalue alone, or both
OverwriteUnusedLanes(bdy, c, net, eig) ==
    LET old == bdy.other_symmetries.value
        unused(l) == l >= bdy.number_other_symmetries
    IN  [bdy EXCEPT !.other_symmetries = Some(
            [network |-> [l \in Lanes |->
                 IF unused(l) /\ net THEN c.network ELSE old.network[l]],
             eigenvalues_real |-> [l \in Lanes |->
                 IF unused(l) /\ eig THEN c.re ELSE old.eigenvalues_real[l]],
             eigenvalues_imag |-> [l \in Lanes |->
                 IF unused(l) /\ eig THEN c.im ELSE old.eigenvalues_imag[l]]])]

\* the bodies that differ from `bdy` in the unused lanes only
BodiesEqualOnValidLanes(bdy, number_spins) ==
    IF ~HasValue(bdy.other_symmetries) THEN {bdy}
    ELSE { OverwriteUnusedLanes(bdy, c, sel[1], sel[2]) :
             c \in OtherLaneContents(number_spins),
             sel \in { <<TRUE, TRUE>>, <<TRUE, FALSE>>, <<FALSE, TRUE>> } }

\* C13: only lanes below number_other_symmetries of the remainder batch take
\* part.  For every body that differs from the current one in the network or
\* the eigenvalues of the other lanes only, get_state_info returns the same
\* representative, character and norm and is_representative the same boolean.
C13_UnusedLanesIgnored ==
    pc = "isrep" =>
        \A other \in BodiesEqualOnValidLanes(body, header.number_spins) :
            LET r == get_state_info_small(header, other, bits)
            IN  /\ r.representative = info.representative
                /\ r.character = info.character
                /\ r.norm = info.norm
                /\ is_representative_arch(header, other, bits).value = isrep.value

\* a remainder batch with unused lanes was scanned for an input that one of
\* the overwritten lanes would map below the representative
C13_Witness ==
    /\ pc = "isrep"
    /\ header.has_symmetries
    /\ header.spin_inversion # 0
    /\ HasValue(body.other_symmetries)
    /\ body.number_other_symmetries < batch_size
    /\ \E c \in OtherLaneContents(header.number_spins) :
           ApplyNetwork(c.network, bits) < info.representative

(***************************************************************************)
(* Ties at the minimum of the extended orbit.                              *)
(***************************************************************************)
\* the group's compiled symmetries in the opposite order
ReversedPayload == [k \in 1..Len(ptr.payload) |-> ptr.payload[Len(ptr.payload) + 1 - k]]

\* the character both paths return when the symmetries are scanned in the
\* opposite order
CharacterOfReversedSmall ==
    get_state_info_small(header, small_basis_t(ReversedPayload,
                                               from_spec(make_identity_spec(header.number_spins))),
                         bits).character
CharacterOfReversedBig ==
    get_state_info_big(header, big_basis_t(ReversedPayload), bits).character

\* the number of elements of the extended orbit, counted with their
\* multiplicity in the group, that attain the minimum
TiedAtMinimum ==
    Cardinality({ k \in 1..Len(ptr.payload) : Image(k) = OrbitMinimum })
    + (IF header.spin_inversion # 0
       THEN Cardinality({ k \in 1..Len(ptr.payload) : FlippedImage(k) = OrbitMinimum })
       ELSE 0)

\* C14 as claimed: for a group returned by make_group and every input, all
\* elements of the extended orbit that attain the minimum carry the same
\* eigenvalue, and the character returned does not depend on the order of the
\* symmetries.
C14_TiesCarryOneEigenvalue ==
    (BigReturned /\ header.has_symmetries) =>
        /\ Cardinality(MinimumEigenvalues) = 1
        /\ CharacterOfReversedSmall = info.character
        /\ CharacterOfReversedBig = infobig.character

\* C14 as amended: whenever the norm is positive, all elements of the
\* extended orbit that attain the minimum carry the same eigenvalue, which is
\* the character both paths return, in either order of the symmetries.
C14_TiesCarryOneEigenvalueWhenNormPositive ==
    (BigReturned /\ header.has_symmetries /\ info.norm.num > 0) =>
        /\ MinimumEigenvalues = {info.character}
        /\ MinimumEigenvalues = {infobig.character}
        /\ CharacterOfReversedSmall = info.character
        /\ CharacterOfReversedBig = infobig.character

\* several elements, plain and flipped, tie at a minimum below the input with
\* an eigenvalue other than 1, and the norm is positive
C14_Witness ==
    /\ BigReturned
    /\ header.has_symmetries
    /\ header.spin_inversion = -1
    /\ info.norm.num > 0
    /\ info.representative < bits
    /\ TiedAtMinimum >= 2
    /\ \E k \in 1..Len(ptr.payload) : Image(k) = OrbitMinimum
    /\ \E k \in 1..Len(ptr.payload) : FlippedImage(k) = OrbitMinimum
    /\ info.character.re < 2

(***************************************************************************)
(* compose on specs whose periodicities approach 2^16: permutations of     *)
(* WideSites sites given by the lengths of their cycles.                   *)
(***************************************************************************)
WideSites == 60

\* consecutive blocks of sites, from site `offset` on, each rotated by one
RECURSIVE CycleBlocks(_, _)
CycleBlocks(lengths, offset) ==
    IF lengths = <<>> THEN <<>>
    ELSE [i \in 1..Head(lengths) |-> offset + (i % Head(lengths))]
             \o CycleBlocks(Tail(lengths), offset + Head(lengths))

\* the permutation with cycles of these lengths from site `offset` on, the
\* other sites fixed
WidePermutation(lengths, offset) ==
    LET blocks == [i \in 1..offset |-> i - 1] \o CycleBlocks(lengths, offset)
    IN  blocks \o [i \in 1..(WideSites - Len(blocks)) |-> Len(blocks) + i - 1]

\* cycles of lengths 4, 3, 5, 7, 11, 13 (order 60060); of lengths 2, 3, 5, 7,
\* 11, 13 (order 30030); and one cycle of length 17 on sites 43 .. 59
WidePermutations ==
    { WidePermutation(<<4, 3, 5, 7, 11, 13>>, 0),
      WidePermutation(<<2, 3, 5, 7, 11, 13>>, 0),
      WidePermutation(<<17>>, 43) }

\* valid specs on them: the periodicity is the order, which fits uint16_t,
\* and the sector is 0, 1, the largest, or the one half way
WideSpecs ==
    UNION { { symmetry_spec_t(p, s, compute_periodicity(p)) :
                s \in { 0, 1, compute_periodicity(p) \div 2, compute_periodicity(p) - 1 } } :
            p \in WidePermutations }

InitWide ==
    /\ pc = "algebra"
    /\ ax \in WideSpecs
    /\ ay \in WideSpecs
    /\ aeq = NotReturned
    /\ acomp = NotReturned
    /\ generators = <<>>
    /\ group = <<>>
    /\ gi = 1
    /\ mg = NotReturned
    /\ rc = NoCode
    /\ ptr = NullPtr
    /\ header = NoBasis
    /\ body = NoBasis
    /\ big = NoBasis
    /\ bits = 0
    /\ info = NotReturned
    /\ isrep = NotReturned
    /\ infobig = NotReturned

CallComposeWide ==
    /\ pc = "algebra"
    /\ acomp.tag = "none"
    /\ acomp' = compose_unsigned(ax, ay)
    /\ UNCHANGED <<pc, generators, group, gi, mg, rc, ptr, FinderVars, ax, ay, aeq>>

NextWide == CallEqual \/ CallComposeWide

SpecWide == InitWide /\ [][NextWide]_vars

\* the two computations of compose agree on every pair of operands of
\* SpecAlgebra
UnsignedAgreesWithNaturals ==
    pc = "algebra" =>
        /\ compose_unsigned(ax, ay) = compose(ax, ay)
        /\ rational_add_unsigned(<<ax.sector, ax.periodicity>>, <<ay.sector, ay.periodicity>>)
               = rational_add(<<ax.sector, ax.periodicity>>, <<ay.sector, ay.periodicity>>)

\* a / b + c / d in lowest terms with the numerator reduced, over the least
\* common denominator
ExactPhase(a, b) ==
    LET L == Lcm(a[2], b[2])
        n == (a[1] * (L \div a[2]) + b[1] * (L \div b[2])) % L
        g == Gcd(n, L)
    IN  <<n \div g, L \div g>>

\* a valid spec whose fields fit uint16_t
ValidSpec(x) ==
    /\ x.periodicity = compute_periodicity(x.permutation)
    /\ x.periodicity < Uint16Mod
    /\ x.sector >= 0
    /\ x.sector < x.periodicity

\* the outcome of compose(ax, ay) in exact arithmetic
ExactCompose ==
    LET perm == [i \in 1..Len(ax.permutation) |-> ax.permutation[ay.permutation[i] + 1]]
        P == compute_periodicity(perm)
        phase == ExactPhase(<<ax.sector, ax.periodicity>>, <<ay.sector, ay.periodicity>>)
    IN  IF phase[2] > P \/ P % phase[2] # 0
        THEN Failure(LS_INCOMPATIBLE_SYMMETRIES)
        ELSE Ok(symmetry_spec_t(perm, phase[1] * (P \div phase[2]), P))

\* the sum a.first * b.second + b.first * a.second stays below 2^32
SumFitsUnsigned ==
    UAdd(UMul16(ax.sector, ay.periodicity), UMul16(ay.sector, ax.periodicity))[3] < 4

\* C15 as claimed: for valid specs on N <= 512 sites the result of compose
\* is the exact one: the stored periodicity is the order of the composed
\* permutation and the stored sector is p * (periodicity / q), the 32-bit
\* arithmetic of rational_add and the narrowing to 16 bits changing nothing.
C15_ComposeExact ==
    (acomp.tag # "none" /\ ValidSpec(ax) /\ ValidSpec(ay)
        /\ Len(ax.permutation) = Len(ay.permutation) /\ Len(ax.permutation) <= 512)
        => acomp = ExactCompose

\* what holds instead: the result is exact whenever the sum of the two
\* products stays below 2^32 and the exact result fits uint16_t
C15_ComposeExactWithinWidths ==
    (acomp.tag # "none" /\ ValidSpec(ax) /\ ValidSpec(ay)
        /\ Len(ax.permutation) = Len(ay.permutation)
        /\ SumFitsUnsigned
        /\ (IsOk(ExactCompose) => ExactCompose.value.periodicity < Uint16Mod))
        => acomp = ExactCompose

\* compose has returned a spec whose periodicity is not the order of its
\* permutation
C15_Witness ==
    /\ pc = "algebra"
    /\ IsOk(acomp)
    /\ ValidSpec(ax)
    /\ ValidSpec(ay)
    /\ acomp.value.periodicity # compute_periodicity(acomp.value.permutation)

\* compose has failed on two valid specs whose exact composition exists: the
\* sum of the products has wrapped
C15_WitnessWrap ==
    /\ pc = "algebra"
    /\ IsError(acomp)
    /\ ValidSpec(ax)
    /\ ValidSpec(ay)
    /\ ~SumFitsUnsigned
    /\ IsOk(ExactCompose)

====
